---- MODULE Spec2Model ----
(***************************************************************************)
(* A model of PiAIClient (src/pi_ai_client.py): construction, and the chat *)
(* pipeline  validate voice -> POST -> decode/scan/extract -> audio GET -> *)
(* file write.  Strings that the code parses are sequences of tokens, each *)
(* token a piece of text no pattern of the code can split; the transport   *)
(* and the file system are the environment.                                *)
(***************************************************************************)
EXTENDS Integers, Sequences, FiniteSets, TLC

(***************************************************************************)
(* Bounds                                                                  *)
(***************************************************************************)
\* the longest response body the transport delivers, in lines
MaxLines == 2

(***************************************************************************)
(* Text as token sequences                                                 *)
(***************************************************************************)
Q == "\""
NL == "\n"
DATA == "data: "
\* a byte sequence that is not valid UTF-8
BadByte == "<0xFF>"

NumberTokens == {"5"}

\* `data: {"text":"Hello"}`
LineHello == <<DATA, "{", Q, "text", Q, ":", Q, "Hello", Q, "}">>
\* `data: {"text":" world","sid":"s1"}`
LineWorldSid == <<DATA, "{", Q, "text", Q, ":", Q, " world", Q, ",",
                  Q, "sid", Q, ":", Q, "s1", Q, "}">>
\* `data: not-json`
LineNotJson == <<DATA, "not-json">>
\* `data: {"sid":"s2"}`
LineSid == <<DATA, "{", Q, "sid", Q, ":", Q, "s2", Q, "}">>
\* `data: 5`
LineNumber == <<DATA, "5">>
\* `data: {"text":"data: x"}`
LineMarkerInText == <<DATA, "{", Q, "text", Q, ":", Q, DATA, "x", Q, "}">>
\* `data: {"sid":""}`
LineEmptySid == <<DATA, "{", Q, "sid", Q, ":", Q, Q, "}">>
\* `data: ["text"]`
LineList == <<DATA, "[", Q, "text", Q, "]">>
\* a line of bytes that do not decode
LineBadBytes == <<BadByte>>

Lines == {LineHello, LineWorldSid, LineNotJson, LineSid, LineNumber,
          LineMarkerInText, LineEmptySid, LineList, LineBadBytes}

RECURSIVE JoinLines(_)
JoinLines(ls) ==
    IF ls = <<>> THEN <<>> ELSE Head(ls) \o <<NL>> \o JoinLines(Tail(ls))

\* the response bodies the transport may deliver
Bodies ==
    UNION {{JoinLines(ls) : ls \in [1..n -> Lines]} : n \in 0..MaxLines}

\* the first index >= i of s holding a token of S, or 0
RECURSIVE FirstIn(_, _, _)
FirstIn(s, i, S) ==
    IF i > Len(s) THEN 0
    ELSE IF s[i] \in S THEN i
    ELSE FirstIn(s, i + 1, S)

\* bytes.decode('utf-8')
Decode(content) ==
    IF \E i \in 1..Len(content) : content[i] = BadByte
    THEN [err |-> "UnicodeDecodeError", str |-> <<>>]
    ELSE [err |-> "", str |-> content]

\* str.splitlines()
RECURSIVE SplitLines(_)
SplitLines(s) ==
    IF s = <<>> THEN <<>>
    ELSE LET k == FirstIn(s, 1, {NL})
         IN IF k = 0 THEN <<s>>
            ELSE <<SubSeq(s, 1, k - 1)>> \o SplitLines(SubSeq(s, k + 1, Len(s)))

\* re.sub("data: ", "", line): every occurrence is removed
StripData(line) == SelectSeq(line, LAMBDA t : t # DATA)

(***************************************************************************)
(* re.findall(r'"sid":"(.*?)"', output_str)                                *)
(***************************************************************************)
SidPrefix == <<Q, "sid", Q, ":", Q>>

RECURSIVE FindSids(_, _)
FindSids(s, i) ==
    IF i + Len(SidPrefix) > Len(s) THEN <<>>
    ELSE IF SubSeq(s, i, i + Len(SidPrefix) - 1) = SidPrefix
         THEN LET j == FirstIn(s, i + Len(SidPrefix), {Q, NL})
              IN IF j # 0 /\ s[j] = Q
                 THEN <<SubSeq(s, i + Len(SidPrefix), j - 1)>> \o FindSids(s, j + 1)
                 ELSE FindSids(s, i + 1)
         ELSE FindSids(s, i + 1)

FindAllSids(s) == FindSids(s, 1)

(***************************************************************************)
(* json.loads on the token grammar: numbers, strings, objects, arrays      *)
(***************************************************************************)
Fail == [ok |-> FALSE, t |-> "none", v |-> <<>>, next |-> 0]

ParseString(s, i) ==
    IF i <= Len(s) /\ s[i] = Q
    THEN LET j == FirstIn(s, i + 1, {Q})
         IN IF j = 0 THEN Fail
            ELSE [ok |-> TRUE, t |-> "str", v |-> SubSeq(s, i + 1, j - 1), next |-> j + 1]
    ELSE Fail

RECURSIVE ParseValue(_, _), ParseMembers(_, _, _), ParseElements(_, _, _)
ParseValue(s, i) ==
    IF i > Len(s) THEN Fail
    ELSE IF s[i] = Q THEN ParseString(s, i)
    ELSE IF s[i] \in NumberTokens
         THEN [ok |-> TRUE, t |-> "num", v |-> <<s[i]>>, next |-> i + 1]
    ELSE IF s[i] = "{"
         THEN IF i + 1 <= Len(s) /\ s[i + 1] = "}"
              THEN [ok |-> TRUE, t |-> "obj", v |-> <<>>, next |-> i + 2]
              ELSE ParseMembers(s, i + 1, <<>>)
    ELSE IF s[i] = "["
         THEN IF i + 1 <= Len(s) /\ s[i + 1] = "]"
              THEN [ok |-> TRUE, t |-> "arr", v |-> <<>>, next |-> i + 2]
              ELSE ParseElements(s, i + 1, <<>>)
    ELSE Fail

\* key ":" value, then "," and another member or "}"
ParseMembers(s, i, acc) ==
    LET k == ParseString(s, i)
    IN IF ~k.ok \/ k.next > Len(s) \/ s[k.next] # ":" THEN Fail
       ELSE LET val == ParseValue(s, k.next + 1)
            IN IF ~val.ok \/ val.next > Len(s) THEN Fail
               ELSE LET acc2 == Append(acc, [key |-> k.v, val |-> val])
                    IN IF s[val.next] = "}"
                       THEN [ok |-> TRUE, t |-> "obj", v |-> acc2, next |-> val.next + 1]
                       ELSE IF s[val.next] = ","
                            THEN ParseMembers(s, val.next + 1, acc2)
                            ELSE Fail

\* value, then "," and another element or "]"
ParseElements(s, i, acc) ==
    LET val == ParseValue(s, i)
    IN IF ~val.ok \/ val.next > Len(s) THEN Fail
       ELSE LET acc2 == Append(acc, val)
            IN IF s[val.next] = "]"
               THEN [ok |-> TRUE, t |-> "arr", v |-> acc2, next |-> val.next + 1]
               ELSE IF s[val.next] = ","
                    THEN ParseElements(s, val.next + 1, acc2)
                    ELSE Fail

\* json.loads(line): one value and nothing after it, else JSONDecodeError
JsonLoads(s) ==
    LET val == ParseValue(s, 1)
    IN IF val.ok /\ val.next = Len(s) + 1 THEN val ELSE Fail

TextKey == <<"text">>

\* 'text' in parsed_data: "yes", "no", or the TypeError of a value that is no container
HasText(p) ==
    CASE p.t = "obj" -> IF \E i \in 1..Len(p.v) : p.v[i].key = TextKey THEN "yes" ELSE "no"
      [] p.t = "str" -> IF \E i \in 1..Len(p.v) : p.v[i] = "text" THEN "yes" ELSE "no"
      [] p.t = "arr" -> IF \E i \in 1..Len(p.v) : p.v[i].t = "str" /\ p.v[i].v = TextKey
                        THEN "yes" ELSE "no"
      [] OTHER -> "TypeError"

\* parsed_data['text'] of a dict: the last member of that key
GetText(p) ==
    LET is == {i \in 1..Len(p.v) : p.v[i].key = TextKey}
        last == CHOOSE i \in is : \A j \in is : j <= i
    IN p.v[last].val

\* one pass of the loop body on a line: what it adds, or the error it raises
ExtractLine(line) ==
    LET p == JsonLoads(StripData(line))
    IN IF ~p.ok THEN [err |-> "", add |-> <<>>]
       ELSE CASE HasText(p) = "TypeError" -> [err |-> "TypeError", add |-> <<>>]
              [] HasText(p) = "no" -> [err |-> "", add |-> <<>>]
              [] OTHER ->
                   IF p.t = "obj" /\ GetText(p).t = "str"
                   THEN [err |-> "", add |-> GetText(p).v]
                   ELSE [err |-> "TypeError", add |-> <<>>]

RECURSIVE ExtractFrom(_, _)
ExtractFrom(ls, acc) ==
    IF ls = <<>> THEN [err |-> "", text |-> acc]
    ELSE LET r == ExtractLine(Head(ls))
         IN IF r.err # "" THEN [err |-> r.err, text |-> <<>>]
            ELSE ExtractFrom(Tail(ls), acc \o r.add)

\* _extract_streaming_text(output_str)
ExtractStreamingText(output_str) == ExtractFrom(SplitLines(output_str), <<>>)

(***************************************************************************)
(* The client                                                              *)
(***************************************************************************)
\* the default of the timeout parameter
DefaultTimeout == 10

AVAILABLE_VOICES ==
    [v \in {"William", "Samantha", "Peter", "Amy", "Alice", "Harry"} |->
        CASE v = "William" -> 1 [] v = "Samantha" -> 2 [] v = "Peter" -> 3
          [] v = "Amy" -> 4 [] v = "Alice" -> 5 [] v = "Harry" -> 6]

\* the values the callers of the model pass
SessionTokens == {"", "hs"}
ConversationIds == {"", "cid"}
BotCookies == {"", "bm"}
Timeouts == {DefaultTimeout, 5}
Prompts == {"p1", "p2"}
VoiceNames == {"Alice", "William", "Bob"}
Paths == {"PiAI.mp3", "out.mp3"}

\* what the service may answer
ChatStatuses == {200, 401, 403}
AudioStatuses == {200, 304, 404, 500}
AudioContents == {<<1, 2>>, <<3>>}
\* subclasses of requests.exceptions.RequestException a transport raises
TransportFailures == {"ConnectionError", "Timeout"}
RequestExceptions == TransportFailures \cup {"HTTPError"}

VARIABLES
    ctor,            \* the constructor call: its arguments and how it ended
    self,            \* the instance attributes
    pc,              \* where the running chat call stands
    call,            \* the arguments of the chat call
    response,        \* the response _send_chat_request returned
    sids,            \* _process_chat_response: sids
    second_sid,      \* _process_chat_response: second_sid
    streaming_text,  \* _process_chat_response: streaming_text
    trace,           \* what the transport and the file system saw in this call
    stdout,          \* what this call printed
    result,          \* how the chat call ended
    files,           \* the file system
    files0           \* the file system as it was when the chat call began

vars == <<ctor, self, pc, call, response, sids, second_sid, streaming_text,
          trace, stdout, result, files, files0>>

NoClient == [base_url |-> "", host_session |-> "", cf_bm |-> "", timeout |-> 0,
             headers |-> <<>>, cookies |-> <<>>, conversation_id |-> ""]
NoCall == [prompt |-> "", voice_name |-> "", verbose |-> FALSE, output_file |-> ""]
NoResponse == [status_code |-> 0, content |-> <<>>]
NoResult == [kind |-> "none", exc |-> "", value |-> <<>>]
None == [some |-> FALSE, val |-> <<>>]
Some(v) == [some |-> TRUE, val |-> v]
NoFile == [exists |-> FALSE, bytes |-> <<>>]

Raised(exc) == [kind |-> "raised", exc |-> exc, value |-> <<>>]
Returned(v) == [kind |-> "returned", exc |-> "", value |-> v]

\* the test written with `and`: one empty parameter is let through
MutValidSessionParametersAnd(host_session, conversation_id) ==
    ~(host_session = "" /\ conversation_id = "")

\* _validate_session_parameters passes
ValidSessionParameters(host_session, conversation_id) ==
    ~(host_session = "" \/ conversation_id = "")

\* _create_headers()
CreateHeaders ==
    [Accept |-> "text/event-stream",
     ContentType |-> "application/json",
     Origin |-> "https://pi.ai",
     Referer |-> "https://pi.ai/talk",
     XApiVersion |-> "3",
     UserAgent |-> "Mozilla/5.0 (Windows NT 10.0; Win64; x64) AppleWebKit/537.36"]

\* the attributes __init__ sets
NewClient(host_session, conversation_id, cf_bm, timeout) ==
    [base_url |-> "https://pi.ai/api/chat",
     host_session |-> host_session,
     cf_bm |-> cf_bm,
     timeout |-> timeout,
     headers |-> CreateHeaders,
     cookies |-> ("__Host-session" :> host_session) @@ ("__cf_bm" :> cf_bm),
     conversation_id |-> conversation_id]

\* the voice check left out
MutValidVoiceAny(voice_name) == TRUE

\* _validate_voice passes
ValidVoice(voice_name) == voice_name \in DOMAIN AVAILABLE_VOICES

\* the status test with 403 forgotten
MutSessionExpiredStatus401(status_code) == status_code = 401

\* the status test of _send_chat_request
SessionExpiredStatus(status_code) == status_code \in {401, 403}

\* Response.raise_for_status() raises HTTPError
RaiseForStatus(status_code) == 400 <= status_code /\ status_code < 600

\* chat's handler written as `except Exception`
MutChatHandlerCatchAll(exc) == "APIConnectionError"

\* chat's handler: except requests.exceptions.RequestException
ChatHandler(exc) ==
    IF exc \in RequestExceptions THEN "APIConnectionError" ELSE exc

\* _download_audio_threaded's handler
AudioHandler(exc) ==
    IF exc \in RequestExceptions THEN "AudioDownloadError" ELSE exc

\* the POST sent with the default timeout instead of the configured one
MutPostRequestDefaultTimeout(client, prompt) ==
    [url |-> client.base_url,
     headers |-> client.headers,
     cookies |-> client.cookies,
     json |-> [text |-> prompt, conversation |-> client.conversation_id],
     stream |-> TRUE,
     timeout |-> DefaultTimeout]

\* the arguments of self._scraper.post in _send_chat_request
PostRequest(client, prompt) ==
    [url |-> client.base_url,
     headers |-> client.headers,
     cookies |-> client.cookies,
     json |-> [text |-> prompt, conversation |-> client.conversation_id],
     stream |-> TRUE,
     timeout |-> client.timeout]

\* the arguments of self._scraper.get in _download_audio_threaded
GetRequest(client, voice_name, message_sid) ==
    [url |-> "https://pi.ai/api/chat/voice",
     params |-> [mode |-> "eager",
                 voice |-> "voice" \o ToString(AVAILABLE_VOICES[voice_name]),
                 messageSid |-> message_sid],
     cookies |-> client.cookies,
     headers |-> client.headers,
     timeout |-> client.timeout]

\* a reply of the transport: an exception, or a status (and, for audio, the bytes)
Failure(exc) == [exc |-> exc, status_code |-> 0, content |-> <<>>]
Reply(status_code, content) == [exc |-> "", status_code |-> status_code, content |-> content]
\* no GET is issued and nothing replies
NoReply == Failure("")
AudioReplies ==
    {Failure(e) : e \in TransportFailures}
        \cup {Reply(s, c) : s \in AudioStatuses, c \in AudioContents}

\* the file opened with "ab": the bytes are appended
MutFileWriteAppend(old, bytes) == [exists |-> TRUE, bytes |-> old.bytes \o bytes]

\* open(output_file, "wb") and write: the new contents of the file
FileWrite(old, bytes) == [exists |-> TRUE, bytes |-> bytes]

\* `if not message_sid`
NotMessageSid(message_sid) == ~message_sid.some \/ message_sid.val = <<>>

\* _download_audio_threaded against the reply the transport gives to its GET:
\* the exception it ends with, what it did, what it printed and the file system after
DownloadAudioThreaded(client, voice_name, message_sid, verbose, output_file, fs, reply) ==
    IF NotMessageSid(message_sid)
    THEN [exc |-> "", events |-> <<>>, out |-> <<>>, fs |-> fs]
    ELSE IF voice_name \notin DOMAIN AVAILABLE_VOICES
    THEN [exc |-> "KeyError", events |-> <<>>, out |-> <<>>, fs |-> fs]
    ELSE LET get == [op |-> "GET",
                     request |-> GetRequest(client, voice_name, message_sid.val),
                     reply |-> reply]
         IN IF reply.exc # ""
            THEN [exc |-> AudioHandler(reply.exc), events |-> <<get>>, out |-> <<>>, fs |-> fs]
            ELSE IF RaiseForStatus(reply.status_code)
            THEN [exc |-> AudioHandler("HTTPError"), events |-> <<get>>, out |-> <<>>,
                  fs |-> fs]
            ELSE [exc |-> "",
                  events |-> <<get, [op |-> "write", path |-> output_file,
                                     bytes |-> reply.content]>>,
                  out |-> IF verbose THEN <<"Audio file downloaded successfully.">>
                          ELSE <<>>,
                  fs |-> [fs EXCEPT ![output_file] = FileWrite(@, reply.content)]]

(***************************************************************************)
(* Actions                                                                 *)
(***************************************************************************)
Init ==
    /\ ctor = [status |-> "none", host_session |-> "", conversation_id |-> "",
               cf_bm |-> "", timeout |-> 0]
    /\ self = NoClient
    /\ pc = "idle"
    /\ call = NoCall
    /\ response = NoResponse
    /\ sids = <<>>
    /\ second_sid = None
    /\ streaming_text = <<>>
    /\ trace = <<>>
    /\ stdout = <<>>
    /\ result = NoResult
    /\ files = [p \in Paths |-> NoFile]
    /\ files0 = [p \in Paths |-> NoFile]

\* PiAIClient(host_session, conversation_id, cf_bm, timeout)
Construct(host_session, conversation_id, cf_bm, timeout) ==
    /\ ctor.status = "none"
    /\ IF ValidSessionParameters(host_session, conversation_id)
       THEN /\ self' = NewClient(host_session, conversation_id, cf_bm, timeout)
            /\ ctor' = [status |-> "ok", host_session |-> host_session,
                        conversation_id |-> conversation_id, cf_bm |-> cf_bm,
                        timeout |-> timeout]
       ELSE /\ self' = self
            /\ ctor' = [status |-> "ValueError", host_session |-> host_session,
                        conversation_id |-> conversation_id, cf_bm |-> cf_bm,
                        timeout |-> timeout]
    /\ UNCHANGED <<pc, call, response, sids, second_sid, streaming_text, trace,
                   stdout, result, files, files0>>

\* chat(prompt, voice_name, verbose, output_file) up to the end of _validate_voice
ChatCall(prompt, voice_name, verbose, output_file) ==
    /\ ctor.status = "ok"
    /\ pc = "idle"
    /\ call' = [prompt |-> prompt, voice_name |-> voice_name, verbose |-> verbose,
                output_file |-> output_file]
    /\ IF ValidVoice(voice_name)
       THEN pc' = "send" /\ result' = NoResult
       ELSE pc' = "done" /\ result' = Raised("VoiceNotFoundError")
    /\ files0' = files
    /\ UNCHANGED <<ctor, self, response, sids, second_sid, streaming_text, trace,
                   stdout, files>>

\* _send_chat_request in a loop that tries again after a transport failure
MutSendChatRequestRetry ==
    /\ pc = "send"
    /\ \E reply \in {Failure(e) : e \in TransportFailures}
                      \cup {Reply(s, <<>>) : s \in ChatStatuses} :
          /\ trace' = Append(trace, [op |-> "POST",
                                     request |-> PostRequest(self, call.prompt),
                                     reply |-> reply])
          /\ IF reply.exc # ""
             THEN /\ result' = result
                  /\ pc' = "send"
                  /\ response' = response
             ELSE IF SessionExpiredStatus(reply.status_code)
             THEN /\ result' = Raised(ChatHandler("SessionExpiredError"))
                  /\ pc' = "done"
                  /\ response' = response
             ELSE /\ result' = result
                  /\ pc' = "process"
                  /\ \E body \in Bodies :
                        response' = [status_code |-> reply.status_code,
                                     content |-> body]
    /\ UNCHANGED <<ctor, self, call, sids, second_sid, streaming_text, stdout, files,
                   files0>>

\* _send_chat_request(prompt), and chat's handler when it raises
SendChatRequest ==
    /\ pc = "send"
    /\ \E reply \in {Failure(e) : e \in TransportFailures}
                      \cup {Reply(s, <<>>) : s \in ChatStatuses} :
          /\ trace' = Append(trace, [op |-> "POST",
                                     request |-> PostRequest(self, call.prompt),
                                     reply |-> reply])
          /\ IF reply.exc # ""
             THEN /\ result' = Raised(ChatHandler(reply.exc))
                  /\ pc' = "done"
                  /\ response' = response
             ELSE IF SessionExpiredStatus(reply.status_code)
             THEN /\ result' = Raised(ChatHandler("SessionExpiredError"))
                  /\ pc' = "done"
                  /\ response' = response
             ELSE /\ result' = result
                  /\ pc' = "process"
                  /\ \E body \in Bodies :
                        response' = [status_code |-> reply.status_code,
                                     content |-> body]
    /\ UNCHANGED <<ctor, self, call, sids, second_sid, streaming_text, stdout, files,
                   files0>>

\* _process_chat_response(response, voice_name, verbose, output_file) with its call
\* of _download_audio_threaded, and chat's handler when it raises
ProcessChatResponse ==
    /\ pc = "process"
    /\ pc' = "done"
    /\ response' = NoResponse
    /\ \E decoded \in {Decode(response.content)} :
       LET read == Append(trace, [op |-> "content"])
       IN IF decoded.err # ""
          THEN /\ result' = Raised(ChatHandler(decoded.err))
               /\ trace' = read
               /\ UNCHANGED <<sids, second_sid, streaming_text, stdout, files>>
          ELSE \E found \in {FindAllSids(decoded.str)} :
               \E extracted \in {ExtractStreamingText(decoded.str)} :
               LET second == IF Len(found) >= 2 THEN Some(found[2]) ELSE None
               IN /\ sids' = found
                  /\ second_sid' = second
                  /\ IF extracted.err # ""
                     THEN /\ result' = Raised(ChatHandler(extracted.err))
                          /\ trace' = read
                          /\ UNCHANGED <<streaming_text, stdout, files>>
                     ELSE /\ streaming_text' = extracted.text
                          /\ \E reply \in IF NotMessageSid(second)
                                          THEN {NoReply}
                                          ELSE AudioReplies :
                             \E d \in {DownloadAudioThreaded(self, call.voice_name,
                                          second, call.verbose, call.output_file,
                                          files, reply)} :
                                /\ trace' = read \o d.events
                                /\ stdout' = d.out
                                /\ files' = d.fs
                                /\ result' = IF d.exc # ""
                                             THEN Raised(ChatHandler(d.exc))
                                             ELSE Returned(extracted.text)
    /\ UNCHANGED <<ctor, self, call, files0>>

\* chat has returned or raised: its frame is gone, the instance and the files stay
ChatReturn ==
    /\ pc = "done"
    /\ pc' = "idle"
    /\ call' = NoCall
    /\ response' = NoResponse
    /\ sids' = <<>>
    /\ second_sid' = None
    /\ streaming_text' = <<>>
    /\ trace' = <<>>
    /\ stdout' = <<>>
    /\ result' = NoResult
    /\ files0' = files
    /\ UNCHANGED <<ctor, self, files>>

Next ==
    \/ \E hs \in SessionTokens, cid \in ConversationIds, cf \in BotCookies,
          t \in Timeouts : Construct(hs, cid, cf, t)
    \/ \E p \in Prompts, v \in VoiceNames, vb \in BOOLEAN, o \in Paths :
          ChatCall(p, v, vb, o)
    \/ SendChatRequest
    \/ ProcessChatResponse
    \/ ChatReturn

Spec == Init /\ [][Next]_vars

(***************************************************************************)
(* What the claims speak of                                                *)
(***************************************************************************)
Done == pc = "done"
PostIdx == {i \in 1..Len(trace) : trace[i].op = "POST"}
GetIdx == {i \in 1..Len(trace) : trace[i].op = "GET"}
WriteIdx == {i \in 1..Len(trace) : trace[i].op = "write"}
ContentIdx == {i \in 1..Len(trace) : trace[i].op = "content"}

\* C1: construction with an empty session token or an empty conversation id
\* fails with ValueError (the code's InvalidConfiguration) and sets no attribute;
\* with both non-empty it succeeds and stores what it was given, whatever the
\* bot-protection cookie and the timeout are.
C1_Construction ==
    ctor.status # "none" =>
        IF ctor.host_session = "" \/ ctor.conversation_id = ""
        THEN ctor.status = "ValueError" /\ self = NoClient
        ELSE /\ ctor.status = "ok"
             /\ self.host_session = ctor.host_session
             /\ self.conversation_id = ctor.conversation_id
             /\ self.cf_bm = ctor.cf_bm
             /\ self.timeout = ctor.timeout

\* C1: a construction refused for its empty conversation id alone, with a cookie
\* and a timeout of the caller's
C1_Witness ==
    /\ ctor.status = "ValueError"
    /\ ctor.host_session # ""
    /\ ctor.conversation_id = ""
    /\ ctor.cf_bm # ""
    /\ ctor.timeout # DefaultTimeout

\* C2: a chat call with a voice name outside the catalog ends with
\* VoiceNotFoundError (the code's UnknownVoice) with no POST, no GET and no file
\* write before it: the call never reaches the pipeline.
C2_UnknownVoice ==
    (pc # "idle" /\ call.voice_name \notin DOMAIN AVAILABLE_VOICES) =>
        /\ Done
        /\ result = Raised("VoiceNotFoundError")
        /\ trace = <<>>
        /\ files = files0

\* C2: a call with the voice "Bob" has been refused
C2_Witness ==
    Done /\ call.voice_name = "Bob" /\ result.exc = "VoiceNotFoundError"

\* C3 (as claimed): text extraction never fails, whatever the lines of the body
\* are: no chat call that read the body ends with an error of the extraction.
C3_ExtractionNeverFails ==
    Done /\ ContentIdx # {} => result.exc # "TypeError"

\* the text the claim C4 describes: of each line that is `data: ` followed by a
\* JSON object with a string `text`, that string, unaltered
ClaimedLineText(line) ==
    IF line # <<>> /\ Head(line) = DATA
    THEN LET p == JsonLoads(Tail(line))
         IN IF p.ok /\ p.t = "obj" /\ HasText(p) = "yes" /\ GetText(p).t = "str"
            THEN GetText(p).v
            ELSE <<>>
    ELSE <<>>

RECURSIVE ClaimedText(_)
ClaimedText(ls) ==
    IF ls = <<>> THEN <<>> ELSE ClaimedLineText(Head(ls)) \o ClaimedText(Tail(ls))

\* C4 (as claimed): the text a successful chat call returns is the concatenation,
\* in line order, of the unaltered `text` values of the lines `data: <JSON object>`
\* of the body, and nothing else.
C4_TextIsConcatenation ==
    [][(pc = "process" /\ result'.kind = "returned")
          => result'.value = ClaimedText(SplitLines(response.content))]_vars

\* C5 (as claimed, and only where the body decoded and its text was extracted):
\* two or more sid occurrences give exactly one GET, with messageSid the second
\* occurrence whatever it is and voice<N> of the requested voice; fewer give no
\* GET, no write, and the text returned without error.
C5_SecondSid ==
    Done /\ ContentIdx # {} /\ result.exc \notin {"UnicodeDecodeError", "TypeError"} =>
        IF Len(sids) >= 2
        THEN /\ Cardinality(GetIdx) = 1
             /\ \A i \in GetIdx :
                  /\ trace[i].request.params.messageSid = sids[2]
                  /\ trace[i].request.params.voice
                        = "voice" \o ToString(AVAILABLE_VOICES[call.voice_name])
        ELSE /\ GetIdx = {}
             /\ WriteIdx = {}
             /\ result = Returned(streaming_text)

\* C6: a POST answered 401 or 403 ends the call at once with SessionExpiredError,
\* not wrapped: the body is not read or parsed, there is no GET, no write and no
\* second POST.
C6_SessionExpired ==
    \A i \in PostIdx :
        trace[i].reply.exc = "" /\ trace[i].reply.status_code \in {401, 403} =>
            /\ Done
            /\ result = Raised("SessionExpiredError")
            /\ Len(trace) = 1
            /\ sids = <<>> /\ streaming_text = <<>> /\ ~second_sid.some
            /\ files = files0

\* C6: a call ended by a 403
C6_Witness ==
    /\ Done
    /\ result.exc = "SessionExpiredError"
    /\ Len(trace) = 1 /\ trace[1].reply.status_code = 403

\* what a failed audio GET must lead to, by C7
AudioFailureOutcome ==
    /\ Done
    /\ result = Raised("AudioDownloadError")
    /\ WriteIdx = {}
    /\ files = files0

\* C7 (as claimed): an audio GET that ends in a transport failure or in any
\* status that is not a success (2xx) makes the call fail with
\* AudioDownloadError, the text not returned, the file untouched.
C7_AnyNonSuccessStatus ==
    \A i \in GetIdx :
        (trace[i].reply.exc # ""
            \/ ~(200 <= trace[i].reply.status_code /\ trace[i].reply.status_code < 300))
        => AudioFailureOutcome

\* C7 (amended): an audio GET that ends in a transport failure or in an error
\* status (400 to 599) makes the call fail with AudioDownloadError, not turned
\* into APIConnectionError, the text not returned, the file untouched.
C7_ErrorStatus ==
    \A i \in GetIdx :
        (trace[i].reply.exc # ""
            \/ (400 <= trace[i].reply.status_code /\ trace[i].reply.status_code < 600))
        => AudioFailureOutcome

\* C7: the text was extracted and the audio GET was answered 500
C7_Witness ==
    /\ Done
    /\ streaming_text # <<>>
    /\ \E i \in GetIdx : trace[i].reply.exc = "" /\ trace[i].reply.status_code = 500
    /\ result.exc = "AudioDownloadError"

\* C8: when chat returns after an audio GET, the file at the caller's path holds
\* the bytes of the audio response and nothing of what it held, the other files
\* are as they were, and the value is the extracted text with verbose on or off.
C8_FileHoldsAudio ==
    Done /\ result.kind = "returned" /\ GetIdx # {} =>
        /\ \A i \in GetIdx :
              files[call.output_file] = [exists |-> TRUE, bytes |-> trace[i].reply.content]
        /\ \A p \in Paths \ {call.output_file} : files[p] = files0[p]
        /\ result.value = streaming_text
        /\ stdout = IF call.verbose THEN <<"Audio file downloaded successfully.">>
                    ELSE <<>>

\* C8: a silent call has replaced other bytes that the file held
C8_Witness ==
    /\ Done /\ result.kind = "returned" /\ GetIdx # {}
    /\ ~call.verbose
    /\ files0[call.output_file].exists
    /\ files0[call.output_file].bytes # files[call.output_file].bytes
    /\ streaming_text # <<>>

\* C9: through every chat call, whatever its outcome, the instance holds what the
\* constructor stored, and every request is built from that and the call's
\* arguments alone: calls with the same prompt send the same POST.
C9_Unmutated ==
    ctor.status = "ok" =>
        /\ self = NewClient(ctor.host_session, ctor.conversation_id, ctor.cf_bm,
                            ctor.timeout)
        /\ \A i \in PostIdx :
              trace[i].request =
                 [url |-> "https://pi.ai/api/chat",
                  headers |-> CreateHeaders,
                  cookies |-> ("__Host-session" :> ctor.host_session)
                                 @@ ("__cf_bm" :> ctor.cf_bm),
                  json |-> [text |-> call.prompt, conversation |-> ctor.conversation_id],
                  stream |-> TRUE,
                  timeout |-> ctor.timeout]
        /\ \A i \in GetIdx :
              /\ trace[i].request.headers = CreateHeaders
              /\ trace[i].request.cookies = ("__Host-session" :> ctor.host_session)
                                               @@ ("__cf_bm" :> ctor.cf_bm)
              /\ trace[i].request.timeout = ctor.timeout

\* C9: a later call of an instance with a cookie and a timeout of its own has sent
\* its requests, an earlier call having written a file
C9_Witness ==
    /\ Done
    /\ ctor.cf_bm # "" /\ ctor.timeout # DefaultTimeout
    /\ \E p \in Paths : files0[p].exists
    /\ PostIdx # {} /\ GetIdx # {}

\* C10: a chat call sends at most one POST and at most one GET, the GET only
\* after the POST was answered; a POST that fails in the transport ends the call
\* with APIConnectionError after that one attempt, with no GET and no write.
C10_Sequential ==
    /\ Cardinality(PostIdx) <= 1
    /\ Cardinality(GetIdx) <= 1
    /\ \A i \in GetIdx : \E j \in PostIdx : j < i /\ trace[j].reply.exc = ""
    /\ \A i \in PostIdx :
          trace[i].reply.exc # "" =>
              /\ Done
              /\ result = Raised("APIConnectionError")
              /\ Len(trace) = 1
              /\ files = files0

\* C10: a call ended by a timeout of its POST
C10_Witness ==
    /\ Done
    /\ Len(trace) = 1 /\ trace[1].op = "POST" /\ trace[1].reply.exc = "Timeout"
    /\ result.exc = "APIConnectionError"

====
